---------------------------- MODULE Spec2Model ----------------------------
(***************************************************************************)
(* IcoCloud v1.2 (src/IcoCloud.py): PLY point cloud -> OBJ icospheres.     *)
(*                                                                         *)
(* Two specifications share the variables below.                           *)
(*   ReadSpec  main() lines 222-227 with read_ply_vertices: the header     *)
(*             loop, the header parse, the binary and the text decoder,    *)
(*             and main's handler of a failed read.                        *)
(*   PipeSpec  main() lines 229-278 from the list read_ply_vertices        *)
(*             returned: preset, crop, empty check, LOD sampling, writer.  *)
(* A header or record line is modelled by its whitespace-split tokens      *)
(* (the code strips and splits every line it reads), a binary payload by   *)
(* its bytes, a coordinate by an integer.                                  *)
(***************************************************************************)
EXTENDS Integers, Sequences, FiniteSets, TLC

VARIABLES
    pc,             \* position in main / read_ply_vertices
    outcome,        \* how the run ended: "running", "ReadError", "Crash", "EmptyResult", "Saved"
    \* ---- read_ply_vertices
    header_lines,   \* lines 52-56
    eof_reads,      \* header loop: readline calls that returned b"" at end of file
    vertex_count, is_binary, is_big_endian, props,   \* lines 58-61
    idx_map,        \* line 82
    stride,         \* line 95
    payload,        \* what follows the header in the file: bytes (binary) or lines (text)
    full_data,      \* line 98
    rverts,         \* the local list `verts` of read_ply_vertices
    rec_i,          \* text mode: iterations of the loop of line 109 done so far
    data_reads,     \* calls of f.read / f.readline made after the header loop
    raised,         \* the exception that left read_ply_vertices / crop_vertical, or "none"
    \* ---- main
    preset, verts, up_axis,
    loaded, rotated, cropped,   \* verts as returned by the read, the preset and the crop stage
    lower_cut_str, upper_cut_str,   \* what the user typed at lines 150 and 153
    lower_cut, upper_cut, crop_skipped,
    keep_ratio, target, picked,
    w_scale, ico_rad,
    \* ---- write_ico_spheres
    file_opened, out, v_offset, wi

readVars == <<header_lines, eof_reads, vertex_count, is_binary, is_big_endian, props,
              idx_map, stride, payload, full_data, rverts, rec_i, data_reads>>
pipeVars == <<preset, up_axis, loaded, rotated, cropped, lower_cut_str,
              upper_cut_str, lower_cut, upper_cut,
              crop_skipped, keep_ratio, target, picked, w_scale, ico_rad,
              file_opened, out, v_offset, wi>>
vars == <<pc, outcome, raised, verts, readVars, pipeVars>>

-----------------------------------------------------------------------------
(* Bounds of the model *)

\* lines read by the header loop before the stream must end (end_header or EOF)
MaxHeaderLines == 5
\* the count declared by the header's `element vertex` line
MaxCount == 2
\* reads at end of file recorded in header_lines before the model stops counting
MaxEofReads == 1
\* points in the list the read hands to the pipeline
MaxPoints == 4

-----------------------------------------------------------------------------
(* Small helpers *)

Range(s) == {s[i] : i \in DOMAIN s}
Last(s) == s[Len(s)]

RECURSIVE SumSeq(_)
SumSeq(s) == IF s = <<>> THEN 0 ELSE s[1] + SumSeq(Tail(s))

-----------------------------------------------------------------------------
(* Header lines the input stream may hold, as token sequences.  Binary files
   of the model are little-endian; ParseLine and FieldBytes model the
   big-endian branch as the code has it. *)

EndHeader == <<"end_header">>

HeaderAlphabet ==
    { <<"format", "binary_little_endian", "1.0">>,
      <<"element", "vertex", ToString(MaxCount)>>,
      <<"element", "face", "1">>,
      <<"property", "UCHAR", "x">>,
      <<"property", "short", "y">>,
      <<"property", "char", "z">>,
      <<"property", "list", "uchar", "int", "z">>,
      <<"property", "foo", "x">> }

\* str.lower() on the type tokens of HeaderAlphabet
Lower(tok) == IF tok = "UCHAR" THEN "uchar" ELSE tok

\* int(parts[2]) on a decimal token
IntOf(tok) == CHOOSE n \in 0..(MaxCount + 1) : ToString(n) = tok

\* `sub in tok` on the format tokens of HeaderAlphabet (no token is a proper
\* superstring of another)
Contains(tok, sub) == tok = sub

\* get_struct_char, lines 37-47; "" stands for None
get_struct_char(prop_type) ==
    LET t == Lower(prop_type) IN
    CASE t \in {"char", "int8"}      -> "b"
      [] t \in {"uchar", "uint8"}    -> "B"
      [] t \in {"short", "int16"}    -> "h"
      [] t \in {"ushort", "uint16"}  -> "H"
      [] t \in {"int", "int32"}      -> "i"
      [] t \in {"uint", "uint32"}    -> "I"
      [] t \in {"float", "float32"}  -> "f"
      [] t \in {"double", "float64"} -> "d"
      [] OTHER                       -> ""

\* size of one format character under the "<" / ">" prefix (standard sizes,
\* no padding), as struct.calcsize counts it
CharSize(c) ==
    CASE c \in {"b", "B"}      -> 1
      [] c \in {"h", "H"}      -> 2
      [] c \in {"i", "I", "f"} -> 4
      [] c = "d"               -> 8

\* struct.calcsize(endian_char + "".join(p[1] for p in props)), lines 94-95
calcsize(ps) == SumSeq([i \in DOMAIN ps |-> CharSize(ps[i].char)])

\* the appended schema entry of line 80
AppendProp(ps, name, fmt_char) ==
    IF fmt_char # "" THEN Append(ps, [name |-> name, char |-> fmt_char]) ELSE ps

\* ParseLine with a non-vertex element line leaving the vertex context open
ParseLineContextStaysOpen(st, parts) ==
    IF parts = <<>> THEN st
    ELSE IF parts[1] = "format" THEN
        IF Contains(parts[2], "binary_little_endian")
            THEN [st EXCEPT !.is_binary = TRUE]
        ELSE IF Contains(parts[2], "binary_big_endian")
            THEN [st EXCEPT !.is_binary = TRUE, !.is_big_endian = TRUE]
        ELSE st
    ELSE IF parts[1] = "element" THEN
        IF parts[2] = "vertex"
            THEN [st EXCEPT !.vertex_count = IntOf(parts[3]),
                            !.in_vertex_element = TRUE]
            ELSE st
    ELSE IF parts[1] = "property" /\ st.in_vertex_element THEN
        IF parts[2] = "list" THEN st
        ELSE [st EXCEPT !.props =
                 AppendProp(st.props, Last(parts), get_struct_char(parts[2]))]
    ELSE st

\* one iteration of the loop of lines 64-80 on the parser's locals
ParseLine(st, parts) ==
    IF parts = <<>> THEN st
    ELSE IF parts[1] = "format" THEN
        IF Contains(parts[2], "binary_little_endian")
            THEN [st EXCEPT !.is_binary = TRUE]
        ELSE IF Contains(parts[2], "binary_big_endian")
            THEN [st EXCEPT !.is_binary = TRUE, !.is_big_endian = TRUE]
        ELSE st
    ELSE IF parts[1] = "element" THEN
        IF parts[2] = "vertex"
            THEN [st EXCEPT !.vertex_count = IntOf(parts[3]),
                            !.in_vertex_element = TRUE]
            ELSE [st EXCEPT !.in_vertex_element = FALSE]
    ELSE IF parts[1] = "property" /\ st.in_vertex_element THEN
        IF parts[2] = "list" THEN st
        ELSE [st EXCEPT !.props =
                 AppendProp(st.props, Last(parts), get_struct_char(parts[2]))]
    ELSE st

\* the parser's locals at lines 58-62
ParseStart ==
    [vertex_count |-> 0, is_binary |-> FALSE, is_big_endian |-> FALSE,
     props |-> <<>>, in_vertex_element |-> FALSE]

RECURSIVE ParseLines(_, _, _)
ParseLines(st, lines, i) ==
    IF i > Len(lines) THEN st
    ELSE ParseLines(ParseLine(st, lines[i]), lines, i + 1)

\* lines 82-84: the last schema position holding each coordinate name, or -1
\* (0-based, as in the code)
IndexOfName(ps, name) ==
    LET hits == {i \in DOMAIN ps : ps[i].name = name} IN
    IF hits = {} THEN -1
    ELSE (CHOOSE i \in hits : \A j \in hits : j <= i) - 1

BuildIdxMap(ps) ==
    [x |-> IndexOfName(ps, "x"), y |-> IndexOfName(ps, "y"), z |-> IndexOfName(ps, "z")]

\* the message of the ValueError of line 86
MissingMsg == "PLY missing x, y, or z."

\* line 86 raising only when every coordinate is absent
MissingEveryCoordinate(m) == m.x = -1 /\ m.y = -1 /\ m.z = -1

\* line 86
MissingCoordinate(m) == m.x = -1 \/ m.y = -1 \/ m.z = -1


-----------------------------------------------------------------------------
(* Record data that may follow the header *)

\* byte values the binary payloads are made of
ByteCycle == <<1, 255, 0, 128, 2, 127>>

\* a binary payload of n bytes, phase p of the cycle
BytesOf(p, n) == [i \in 1..n |-> ByteCycle[((i + p) % Len(ByteCycle)) + 1]]

\* binary payloads: every length up to one byte more than stride * vertex_count
BinaryPayloads(ps, vc) ==
    {BytesOf(p, n) : p \in {0, 3}, n \in 0..(calcsize(ps) * vc + 1)}

\* record lines of a text payload
TextAlphabet ==
    { <<"1", "2", "3", "4", "5">>,
      <<"-1", "0", "7", "2", "-3">>,
      <<"9">>,
      <<"1", "abc", "3", "4", "5">>,
      <<>> }

RECURSIVE SeqsUpTo(_, _)
SeqsUpTo(S, n) ==
    IF n = 0 THEN {<<>>}
    ELSE LET shorter == SeqsUpTo(S, n - 1) IN
         shorter \cup {Append(s, e) : s \in {t \in shorter : Len(t) = n - 1}, e \in S}

\* text payloads: up to vertex_count lines, or vertex_count lines and one more
\* record line after them
TextPayloads(vc) ==
    SeqsUpTo(TextAlphabet, vc)
        \cup {Append(s, <<"1", "2", "3", "4", "5">>) :
                 s \in {t \in SeqsUpTo(TextAlphabet, vc) : Len(t) = vc}}

-----------------------------------------------------------------------------
(* Decoders *)

\* float(val) on a token: the tokens that parse, and their value
FloatRange == -9..9
IsFloat(tok) == \E n \in FloatRange : ToString(n) = tok
FloatOf(tok) == CHOOSE n \in FloatRange : ToString(n) = tok

\* bytes of one field, least significant first
FieldBytes(bs, big) ==
    IF big THEN [i \in DOMAIN bs |-> bs[Len(bs) + 1 - i]] ELSE bs

\* struct decoding of one integer field.  The header alphabet declares the
\* one- and two-byte kinds; the wider kinds are sized (CharSize) but no
\* header of the model makes the decoder read one.
DecodeField(c, bs, big) ==
    LET le == FieldBytes(bs, big) IN
    CASE c = "B" -> le[1]
      [] c = "b" -> IF le[1] >= 128 THEN le[1] - 256 ELSE le[1]
      [] c = "H" -> le[1] + 256 * le[2]
      [] c = "h" -> LET u == le[1] + 256 * le[2] IN
                    IF u >= 32768 THEN u - 65536 ELSE u

\* struct.unpack(struct_fmt, chunk) for a chunk of exactly calcsize bytes:
\* the tuple of decoded fields
RECURSIVE Unpack(_, _, _)
Unpack(ps, chunk, big) ==
    IF ps = <<>> THEN <<>>
    ELSE LET n == CharSize(ps[1].char) IN
         <<DecodeField(ps[1].char, SubSeq(chunk, 1, n), big)>>
            \o Unpack(Tail(ps), SubSeq(chunk, n + 1, Len(chunk)), big)

\* (u[ix], u[iy], u[iz]), lines 102 and 107 and 114 (0-based indices)
PickXYZ(u, m) == <<u[m.x + 1], u[m.y + 1], u[m.z + 1]>>

\* struct.iter_unpack, line 101: refuses a buffer that is not a whole number
\* of records, else yields every record in order
IterUnpackFails(data, sz) == Len(data) % sz # 0

IterUnpack(ps, data, big, sz) ==
    [r \in 1..(Len(data) \div sz) |->
        Unpack(ps, SubSeq(data, (r - 1) * sz + 1, r * sz), big)]

\* the fallback loop of lines 105-107 from offset i (0-based) with `acc`
\* collected so far; struct.unpack refuses a chunk shorter than the record
RECURSIVE SlowFallback(_, _, _, _, _, _)
SlowFallback(ps, data, big, sz, m, st) ==
    IF st.i >= Len(data) THEN st
    ELSE LET hi    == IF st.i + sz <= Len(data) THEN st.i + sz ELSE Len(data)
             chunk == SubSeq(data, st.i + 1, hi)
         IN  IF Len(chunk) # sz
                 THEN [st EXCEPT !.raised = "struct.error"]
                 ELSE SlowFallback(ps, data, big, sz, m,
                        [st EXCEPT !.i = st.i + sz,
                                   !.verts = Append(st.verts,
                                                PickXYZ(Unpack(ps, chunk, big), m))])

\* lines 98-107 on the bytes f.read returned
DecodeBinaryData(ps, data, big, sz, m) ==
    IF ~IterUnpackFails(data, sz)
        THEN [i |-> 0, raised |-> "none",
              verts |-> LET us == IterUnpack(ps, data, big, sz) IN
                        [r \in DOMAIN us |-> PickXYZ(us[r], m)]]
        ELSE SlowFallback(ps, data, big, sz, m,
                          [i |-> 0, verts |-> <<>>, raised |-> "none"])

\* f.read(n) on the payload
ReadBytes(data, n) == IF n <= Len(data) THEN SubSeq(data, 1, n) ELSE data

\* lines 112-115 on one split record line: the point it yields, if any
TextRecordOK(line_data, m) ==
    /\ \A t \in Range(line_data) : IsFloat(t)
    /\ m.x < Len(line_data) /\ m.y < Len(line_data) /\ m.z < Len(line_data)

TextRecordPoint(line_data, m) ==
    PickXYZ([i \in DOMAIN line_data |-> FloatOf(line_data[i])], m)

\* line 111: the loop ends on a line with no tokens
TextLoopBreaks(line_data) == line_data = <<>>

-----------------------------------------------------------------------------
(* Values of the variables a stage has not assigned yet *)

PipeLocalsUnset ==
    /\ lower_cut_str = "" /\ upper_cut_str = ""
    /\ lower_cut = 0 /\ upper_cut = 0 /\ crop_skipped = FALSE
    /\ keep_ratio = 100 /\ target = 0 /\ picked = <<>>
    /\ w_scale = 1 /\ ico_rad = 0
    /\ file_opened = FALSE /\ out = <<>> /\ v_offset = 0 /\ wi = 0

-----------------------------------------------------------------------------
(* ReadSpec: the read of main, lines 222-227 *)

ReadInit ==
    /\ pc = "ReadHeader"
    /\ outcome = "running"
    /\ raised = "none"
    /\ header_lines = <<>>
    /\ eof_reads = 0
    /\ vertex_count = 0 /\ is_binary = FALSE /\ is_big_endian = FALSE /\ props = <<>>
    /\ idx_map = [x |-> -1, y |-> -1, z |-> -1]
    /\ stride = 0
    /\ payload = <<>> /\ full_data = <<>>
    /\ rverts = <<>> /\ rec_i = 0 /\ data_reads = 0
    /\ verts = <<>>
    \* main has read the preset before the read starts (lines 217-220); the
    \* read does not use it, and the blank-input default stands for it here
    /\ preset = 1
    /\ up_axis = 0
    /\ loaded = <<>> /\ rotated = <<>> /\ cropped = <<>>
    /\ PipeLocalsUnset

\* lines 53-56, one readline that returns a line of the stream
ReadHeaderLine ==
    /\ pc = "ReadHeader"
    /\ eof_reads = 0
    /\ \E line \in HeaderAlphabet \cup {EndHeader} :
        /\ line # EndHeader => Len(header_lines) < MaxHeaderLines
        /\ header_lines' = Append(header_lines, line)
        /\ pc' = IF line = EndHeader THEN "ParseHeader" ELSE "ReadHeader"
    /\ UNCHANGED <<outcome, raised, verts, eof_reads, vertex_count, is_binary,
                   is_big_endian, props, idx_map, stride, payload, full_data,
                   rverts, rec_i, data_reads, pipeVars>>

\* lines 53-56, one readline at end of file: it returns b"", which is appended
\* and is not the sentinel.  header_lines grows without bound here; the model
\* records the first MaxEofReads of these reads and then repeats the state.
ReadHeaderAtEof ==
    /\ pc = "ReadHeader"
    /\ eof_reads' = IF eof_reads < MaxEofReads THEN eof_reads + 1 ELSE eof_reads
    /\ header_lines' = IF eof_reads < MaxEofReads
                          THEN Append(header_lines, <<>>) ELSE header_lines
    /\ pc' = "ReadHeader"
    /\ UNCHANGED <<outcome, raised, verts, vertex_count, is_binary,
                   is_big_endian, props, idx_map, stride, payload, full_data,
                   rverts, rec_i, data_reads, pipeVars>>

\* lines 58-86
ParseHeader ==
    /\ pc = "ParseHeader"
    /\ LET st == ParseLines(ParseStart, header_lines, 1)
           m  == BuildIdxMap(st.props)
       IN
        /\ vertex_count' = st.vertex_count
        /\ is_binary' = st.is_binary
        /\ is_big_endian' = st.is_big_endian
        /\ props' = st.props
        /\ idx_map' = m
        /\ IF MissingCoordinate(m)
              THEN raised' = MissingMsg /\ pc' = "Raised"
              ELSE raised' = raised /\ pc' = "StartDecode"
    /\ UNCHANGED <<outcome, verts, header_lines, eof_reads, stride, payload,
                   full_data, rverts, rec_i, data_reads, pipeVars>>

\* lines 88-92: the branch on is_binary.  The rest of the file, which nothing
\* has read so far, is fixed here; header_lines is not used after line 64 and
\* is forgotten.
StartDecode ==
    /\ pc = "StartDecode"
    /\ pc' = IF is_binary THEN "DecodeBinary" ELSE "DecodeText"
    /\ payload' \in IF is_binary THEN BinaryPayloads(props, vertex_count)
                                 ELSE TextPayloads(vertex_count)
    /\ header_lines' = <<>>
    /\ UNCHANGED <<outcome, raised, verts, eof_reads, vertex_count, is_binary,
                   is_big_endian, props, idx_map, stride, full_data, rverts,
                   rec_i, data_reads, pipeVars>>

\* lines 92-107
DecodeBinary ==
    /\ pc = "DecodeBinary"
    /\ LET sz   == calcsize(props)
           data == ReadBytes(payload, sz * vertex_count)
           res  == DecodeBinaryData(props, data, is_big_endian, sz, idx_map)
       IN
        /\ stride' = sz
        /\ full_data' = data
        /\ data_reads' = data_reads + 1
        /\ rverts' = res.verts
        /\ raised' = res.raised
        /\ pc' = IF res.raised = "none" THEN "ReturnVerts" ELSE "Raised"
    /\ UNCHANGED <<outcome, verts, header_lines, eof_reads, vertex_count, is_binary,
                   is_big_endian, props, idx_map, payload, rec_i, pipeVars>>

\* lines 109-115, one iteration of the loop (or its exit)
DecodeTextRecord ==
    /\ pc = "DecodeText"
    /\ IF rec_i >= vertex_count
          THEN /\ pc' = "ReturnVerts"
               /\ UNCHANGED <<rverts, rec_i, data_reads>>
          ELSE LET line_data == IF rec_i < Len(payload) THEN payload[rec_i + 1]
                                                        ELSE <<>>
               IN
                /\ data_reads' = data_reads + 1
                /\ rec_i' = rec_i + 1
                /\ IF TextLoopBreaks(line_data)
                      THEN pc' = "ReturnVerts" /\ rverts' = rverts
                      ELSE /\ pc' = "DecodeText"
                           /\ rverts' = IF TextRecordOK(line_data, idx_map)
                                THEN Append(rverts, TextRecordPoint(line_data, idx_map))
                                ELSE rverts
    /\ UNCHANGED <<outcome, raised, verts, header_lines, eof_reads, vertex_count,
                   is_binary, is_big_endian, props, idx_map, stride, payload,
                   full_data, pipeVars>>

\* line 116 and the assignment of line 224
ReturnVerts ==
    /\ pc = "ReturnVerts"
    /\ verts' = rverts
    /\ loaded' = rverts
    /\ pc' = "Preset"
    /\ UNCHANGED <<outcome, raised, readVars, preset, up_axis, rotated, cropped,
                   lower_cut_str, upper_cut_str, lower_cut, upper_cut,
                   crop_skipped, keep_ratio, target, picked, w_scale, ico_rad,
                   file_opened, out, v_offset, wi>>

\* lines 225-227: main reports the exception and returns
MainCatch ==
    /\ pc = "Raised"
    /\ outcome' = "ReadError"
    /\ pc' = "Done"
    /\ UNCHANGED <<raised, verts, readVars, pipeVars>>

ReadNext ==
    \/ ReadHeaderLine
    \/ ReadHeaderAtEof
    \/ ParseHeader
    \/ StartDecode
    \/ DecodeBinary
    \/ DecodeTextRecord
    \/ ReturnVerts
    \/ MainCatch

ReadSpec == ReadInit /\ [][ReadNext]_vars


-----------------------------------------------------------------------------
(* Claims about the read *)

CoordNames == {"x", "y", "z"}

\* the header has been parsed and header_lines still holds it
HeaderParsed == pc = "StartDecode" \/ raised = MissingMsg

IsElementLine(l) == l # <<>> /\ l[1] = "element"
IsPropertyLine(l) == l # <<>> /\ l[1] = "property"

\* the lookup table of the schema reader: type name (lower case) to numeric
\* kind, written as the kind's struct character; "" when the name is unknown
KindOfType(t) ==
    CASE t = "char" \/ t = "int8"       -> "b"
      [] t = "uchar" \/ t = "uint8"     -> "B"
      [] t = "short" \/ t = "int16"     -> "h"
      [] t = "ushort" \/ t = "uint16"   -> "H"
      [] t = "int" \/ t = "int32"       -> "i"
      [] t = "uint" \/ t = "uint32"     -> "I"
      [] t = "float" \/ t = "float32"   -> "f"
      [] t = "double" \/ t = "float64"  -> "d"
      [] OTHER                          -> ""

\* byte width of a numeric kind: 1,1,2,2,4,4,4,8
WidthOfKind(c) ==
    IF c = "b" \/ c = "B" THEN 1
    ELSE IF c = "h" \/ c = "H" THEN 2
    ELSE IF c = "d" THEN 8
    ELSE 4

\* positions of the header lines the schema must hold: property lines whose
\* most recent element line names "vertex", not of type list, of a known type
SchemaLines(lines) ==
    {i \in DOMAIN lines :
        /\ IsPropertyLine(lines[i])
        /\ \E j \in 1..(i - 1) :
              /\ IsElementLine(lines[j]) /\ lines[j][2] = "vertex"
              /\ \A k \in (j + 1)..(i - 1) : ~IsElementLine(lines[k])
        /\ lines[i][2] # "list"
        /\ KindOfType(Lower(lines[i][2])) # ""}

NthOf(I, r) == CHOOSE i \in I : Cardinality({j \in I : j <= i}) = r

\* C1: the schema holds, in declared order, exactly the vertex-element
\* property lines of a known non-list type; the x/y/z indices are positions of
\* the properties so named (-1 when there is none); the binary stride is the
\* sum of the byte widths of the schema's properties.
C1_SchemaAndStride ==
    /\ HeaderParsed =>
        LET I == SchemaLines(header_lines) IN
        /\ Len(props) = Cardinality(I)
        /\ \A r \in 1..Cardinality(I) :
              /\ props[r].name = Last(header_lines[NthOf(I, r)])
              /\ props[r].char = KindOfType(Lower(header_lines[NthOf(I, r)][2]))
        /\ \A c \in CoordNames :
              IF \E r \in DOMAIN props : props[r].name = c
                 THEN /\ idx_map[c] \in 0..(Len(props) - 1)
                      /\ props[idx_map[c] + 1].name = c
                 ELSE idx_map[c] = -1
    /\ (is_binary /\ data_reads > 0) =>
        stride = SumSeq([r \in DOMAIN props |-> WidthOfKind(props[r].char)])

\* a parsed header with a list property that was left out, and x not first
C1_Witness ==
    /\ pc = "StartDecode"
    /\ \E i \in DOMAIN header_lines :
          IsPropertyLine(header_lines[i]) /\ header_lines[i][2] = "list"
    /\ idx_map.x > 0

\* the schema has no property named x, or none named y, or none named z
LacksCoordinate == \E c \in CoordNames : \A r \in DOMAIN props : props[r].name # c

PipelineUntouched ==
    /\ verts = <<>> /\ loaded = <<>> /\ rotated = <<>> /\ cropped = <<>>
    /\ picked = <<>> /\ ~file_opened /\ out = <<>>

\* C7: a schema lacking x, y or z makes the read fail with the
\* missing-coordinate error before any record data is read, and the run ends
\* as a reported read error with no later stage entered.
C7_MissingCoordinateFailsFirst ==
    (pc \notin {"ReadHeader", "ParseHeader"} /\ LacksCoordinate) =>
        /\ raised = MissingMsg
        /\ pc \in {"Raised", "Done"}
        /\ data_reads = 0 /\ full_data = <<>> /\ rverts = <<>>
        /\ pc = "Done" => outcome = "ReadError"
        /\ PipelineUntouched

\* a run that ended on a header declaring x and y but no z
C7_Witness ==
    /\ pc = "Done" /\ outcome = "ReadError"
    /\ \E r \in DOMAIN props : props[r].name = "x"
    /\ \E r \in DOMAIN props : props[r].name = "y"
    /\ \A r \in DOMAIN props : props[r].name # "z"

\* the bytes read end in a partial record
TruncatedBinary ==
    /\ is_binary /\ data_reads > 0
    /\ Len(full_data) < stride * vertex_count
    /\ Len(full_data) % stride # 0

\* C5: binary data that ends in a partial record is decoded without an error;
\* the points of the complete records before it are returned, the partial
\* record is dropped.
C5_TruncatedTailDropped ==
    TruncatedBinary =>
        /\ raised = "none"
        /\ pc \in {"ReturnVerts", "Preset"}
        /\ Len(rverts) = Len(full_data) \div stride

\* the record lines among the first vc lines of a text payload that parse and
\* reach the x/y/z indices, in order
RECURSIVE GoodTextPoints(_, _, _)
GoodTextPoints(lines, n, m) ==
    IF n = 0 THEN <<>>
    ELSE LET before == GoodTextPoints(lines, n - 1, m)
             l      == lines[n]
         IN  IF /\ l # <<>>
                /\ \A t \in Range(l) : IsFloat(t)
                /\ \A c \in CoordNames : m[c] + 1 <= Len(l)
                THEN Append(before, <<FloatOf(l[m.x + 1]), FloatOf(l[m.y + 1]),
                                      FloatOf(l[m.z + 1])>>)
                ELSE before

TextDecodeEnded == ~is_binary /\ pc \in {"ReturnVerts", "Preset"}

\* C6: text mode consumes exactly vertex_count record lines when the file has
\* them; each line that parses yields a point, in order; a line that does not
\* (an empty line included) is skipped and the lines after it are still decoded.
C6_TextRecordsSkippedNotFatal ==
    TextDecodeEnded =>
        LET n == IF Len(payload) < vertex_count THEN Len(payload) ELSE vertex_count IN
        /\ Len(payload) >= vertex_count => data_reads = vertex_count
        /\ rverts = GoodTextPoints(payload, n, idx_map)
        /\ Len(rverts) <= vertex_count

\* C10: the header loop stops on every finite stream, also on one that ends
\* without an end_header line.  Every readline at end of file returns b"" like
\* the one before it, so a loop that stops must have stopped once a readline
\* has returned b"" at end of file.
C10_HeaderLoopTerminates == eof_reads > 0 => pc # "ReadHeader"

-----------------------------------------------------------------------------
(* The pipeline of main, lines 229-278 *)

\* points the read may return (any list of float triples can come out of a
\* text file); coordinates are integers
PointSet == { <<1, 2, 3>>, <<0, -1, 1>> }

\* int(s) on a token: the tokens that parse, and their value
IsInt(tok) == \E n \in FloatRange : ToString(n) = tok
IntTok(tok) == CHOOSE n \in FloatRange : ToString(n) = tok

\* lines 217-220: "" is a blank answer
PresetInputs == {"", "1", "2", "3", "abc"}
ParsePreset(s) == IF s = "" THEN 1 ELSE IF IsInt(s) THEN IntTok(s) ELSE 1

\* apply_preset, lines 119-134
apply_preset(vs, preset_id) ==
    IF preset_id = 1
        THEN [i \in DOMAIN vs |-> <<vs[i][1], vs[i][3], -vs[i][2]>>]
    ELSE IF preset_id = 2 THEN vs
    ELSE <<>>

\* min(heights) and max(heights), lines 140-141, on a non-empty list
MinOf(hs) == CHOOSE h \in Range(hs) : \A g \in Range(hs) : h <= g
MaxOf(hs) == CHOOSE h \in Range(hs) : \A g \in Range(hs) : g <= h

\* the test of line 163 with both ends exclusive
KeepsHeightStrict(h, lo, hi) == h > lo /\ h < hi

\* the test of line 163
KeepsHeight(h, lo, hi) == h >= lo /\ h <= hi

\* the loop of lines 160-164 from position i
RECURSIVE CropLoop(_, _, _, _, _, _)
CropLoop(vs, axis, lo, hi, i, new_verts) ==
    IF i > Len(vs) THEN new_verts
    ELSE CropLoop(vs, axis, lo, hi, i + 1,
                  IF KeepsHeight(vs[i][axis + 1], lo, hi)
                     THEN Append(new_verts, vs[i]) ELSE new_verts)

\* lines 150-154: answers to the two prompts
CutInputs == {"", "abc", "1", "3"}
CutOf(s, default) == IF s = "" THEN default ELSE FloatOf(s)
CutInvalid(s) == s # "" /\ ~IsFloat(s)

\* lines 249-255: answers to the LOD prompt, lod_map in percent
LodInputs == {"", "abc", "0", "1", "2", "3", "7"}
ParseLod(s) == IF s = "" THEN 0 ELSE IF IsInt(s) THEN IntTok(s) ELSE 0
lod_map(lod) ==
    CASE lod = 0 -> 100
      [] lod = 1 -> 50
      [] lod = 2 -> 25
      [] lod = 3 -> 10
      [] OTHER   -> 100

\* lines 258-259 without the floor of one point
TargetCountNoMinimum(count, pct) == (count * pct) \div 100

\* lines 258-259: int(len(verts) * keep_ratio), at least 1
TargetCount(count, pct) ==
    LET t == (count * pct) \div 100 IN IF t < 1 THEN 1 ELSE t

\* random.sample(verts, target), line 261: the lists of `k` distinct positions
SamplePositions(n, k) ==
    {s \in [1..k -> 1..n] : \A a, b \in 1..k : a # b => s[a] # s[b]}

\* lines 263-270: answers to the scale and radius prompts; the radius is held
\* in thousandths
ScaleInputs == {"", "2", "abc"}
RadiusInputs == {"", "abc"}
\* line 13: 0.01, in thousandths
ICO_RADIUS == 10
ScaleInvalid(s) == s # "" /\ ~IsFloat(s)

\* ico_verts_unit, lines 16-27, in thousandths:
\* 1/sqrt(1+t^2) = 0.526 and t/sqrt(1+t^2) = 0.851
ico_verts_unit ==
    << <<-526, 851, 0>>, <<526, 851, 0>>, <<-526, -851, 0>>, <<526, -851, 0>>,
       <<0, -526, 851>>, <<0, 526, 851>>, <<0, -526, -851>>, <<0, 526, -851>>,
       <<851, 0, -526>>, <<851, 0, 526>>, <<-851, 0, -526>>, <<-851, 0, 526>> >>

\* ico_faces_unit, lines 29-34
ico_faces_unit ==
    << <<0, 11, 5>>, <<0, 5, 1>>, <<0, 1, 7>>, <<0, 7, 10>>, <<0, 10, 11>>,
       <<1, 5, 9>>, <<5, 11, 4>>, <<11, 10, 2>>, <<10, 7, 6>>, <<7, 1, 8>>,
       <<3, 9, 4>>, <<3, 4, 2>>, <<3, 2, 6>>, <<3, 6, 8>>, <<3, 8, 9>>,
       <<4, 9, 5>>, <<2, 4, 11>>, <<6, 2, 10>>, <<8, 6, 7>>, <<9, 8, 1>> >>

\* line 190: a vertex line, coordinates in millionths (the six decimals of
\* the format): scaled position plus template vertex times radius
VertexLine(v, tv, scale, rad) ==
    [kind |-> "v",
     p |-> <<v[1] * scale * 1000000 + tv[1] * rad,
             v[2] * scale * 1000000 + tv[2] * rad,
             v[3] * scale * 1000000 + tv[3] * rad>>]

\* line 193 with the template indices written as they are (0-based)
FaceLineZeroBased(offset, f) ==
    [kind |-> "f", idx |-> <<offset + f[1], offset + f[2], offset + f[3]>>]

\* line 193: a face line
FaceLine(offset, f) ==
    [kind |-> "f", idx |-> <<offset + f[1] + 1, offset + f[2] + 1, offset + f[3] + 1>>]

\* lines 186-193: the lines written for one point
PointLines(v, offset, scale, rad) ==
    [i \in DOMAIN ico_verts_unit |-> VertexLine(v, ico_verts_unit[i], scale, rad)]
        \o [i \in DOMAIN ico_faces_unit |-> FaceLine(offset, ico_faces_unit[i])]

PipeInit ==
    /\ pc = "Preset"
    /\ outcome = "running"
    /\ raised = "none"
    \* the locals of read_ply_vertices are gone
    /\ header_lines = <<>> /\ eof_reads = 0
    /\ vertex_count = 0 /\ is_binary = FALSE /\ is_big_endian = FALSE /\ props = <<>>
    /\ idx_map = [x |-> -1, y |-> -1, z |-> -1]
    /\ stride = 0 /\ payload = <<>> /\ full_data = <<>>
    /\ rverts = <<>> /\ rec_i = 0 /\ data_reads = 0
    \* line 224: what the read returned
    /\ verts \in SeqsUpTo(PointSet, MaxPoints)
    /\ loaded = verts
    \* lines 217-220
    /\ \E s \in PresetInputs : preset = ParsePreset(s)
    /\ up_axis = 0
    /\ rotated = <<>> /\ cropped = <<>>
    /\ PipeLocalsUnset

\* lines 230 and 235
ApplyPreset ==
    /\ pc = "Preset"
    /\ verts' = apply_preset(verts, preset)
    /\ rotated' = verts'
    /\ up_axis' = IF preset = 1 THEN 1 ELSE 2
    /\ pc' = "Crop"
    /\ UNCHANGED <<outcome, raised, readVars, preset, loaded, cropped,
                   lower_cut_str, upper_cut_str, lower_cut, upper_cut,
                   crop_skipped, keep_ratio, target, picked, w_scale, ico_rad,
                   file_opened, out, v_offset, wi>>

\* line 236, crop_vertical (lines 137-167).  min() of an empty list raises
\* ValueError at line 140, outside the try of line 149; nothing in main
\* catches it and the run ends there.
CropVertical ==
    /\ pc = "Crop"
    /\ IF verts = <<>>
          THEN /\ raised' = "min() arg is an empty sequence"
               /\ outcome' = "Crash"
               /\ pc' = "Done"
               /\ UNCHANGED <<verts, cropped, lower_cut_str, upper_cut_str,
                              lower_cut, upper_cut, crop_skipped>>
          ELSE LET heights == [i \in DOMAIN verts |-> verts[i][up_axis + 1]]
                   min_h   == MinOf(heights)
                   max_h   == MaxOf(heights)
               IN \E lo \in CutInputs, hi \in CutInputs :
                    /\ lower_cut_str' = lo
                    /\ IF CutInvalid(lo)
                          \* float() raises at line 151: the second prompt is not reached
                          THEN /\ upper_cut_str' = upper_cut_str
                               /\ hi = ""
                               /\ crop_skipped' = TRUE
                               /\ UNCHANGED <<lower_cut, upper_cut>>
                               /\ verts' = verts
                          ELSE /\ upper_cut_str' = hi
                               /\ lower_cut' = CutOf(lo, min_h)
                               /\ IF CutInvalid(hi)
                                     THEN /\ crop_skipped' = TRUE
                                          /\ upper_cut' = upper_cut
                                          /\ verts' = verts
                                     ELSE /\ crop_skipped' = FALSE
                                          /\ upper_cut' = CutOf(hi, max_h)
                                          /\ verts' = CropLoop(verts, up_axis,
                                                CutOf(lo, min_h), CutOf(hi, max_h),
                                                1, <<>>)
                    /\ cropped' = verts'
                    /\ pc' = "EmptyCheck"
                    /\ UNCHANGED <<raised, outcome>>
    /\ UNCHANGED <<readVars, preset, up_axis, loaded, rotated, keep_ratio, target,
                   picked, w_scale, ico_rad, file_opened, out, v_offset, wi>>

\* lines 238-240
EmptyCheck ==
    /\ pc = "EmptyCheck"
    /\ IF Len(verts) = 0
          THEN outcome' = "EmptyResult" /\ pc' = "Done"
          ELSE outcome' = outcome /\ pc' = "Lod"
    /\ UNCHANGED <<raised, verts, readVars, pipeVars>>

\* lines 249-261
ApplyLod ==
    /\ pc = "Lod"
    /\ \E s \in LodInputs :
        LET ratio == lod_map(ParseLod(s)) IN
        /\ keep_ratio' = ratio
        /\ IF ratio < 100
              THEN /\ target' = TargetCount(Len(verts), ratio)
                   /\ \E pos \in SamplePositions(Len(verts), target') :
                        /\ picked' = pos
                        /\ verts' = [j \in DOMAIN pos |-> verts[pos[j]]]
              ELSE UNCHANGED <<target, picked, verts>>
    /\ pc' = "Scale"
    /\ UNCHANGED <<outcome, raised, readVars, preset, up_axis, loaded, rotated,
                   cropped, lower_cut_str, upper_cut_str, lower_cut, upper_cut,
                   crop_skipped, w_scale, ico_rad, file_opened, out, v_offset, wi>>

\* lines 263-273
ReadScale ==
    /\ pc = "Scale"
    /\ \E s_scale \in ScaleInputs, s_rad \in RadiusInputs :
        IF ScaleInvalid(s_scale)
           THEN s_rad = "" /\ w_scale' = 1 /\ ico_rad' = ICO_RADIUS
           ELSE IF ScaleInvalid(s_rad)
                   THEN w_scale' = 1 /\ ico_rad' = ICO_RADIUS
                   ELSE /\ w_scale' = (IF s_scale = "" THEN 1 ELSE FloatOf(s_scale))
                        /\ ico_rad' = (IF s_rad = "" THEN ICO_RADIUS
                                                     ELSE 1000 * FloatOf(s_rad))
    /\ pc' = "OpenOut"
    /\ UNCHANGED <<outcome, raised, verts, readVars, preset, up_axis, loaded,
                   rotated, cropped, lower_cut_str, upper_cut_str, lower_cut,
                   upper_cut, crop_skipped, keep_ratio, target, picked,
                   file_opened, out, v_offset, wi>>

\* write_ico_spheres, lines 171-175: the file is opened and the comment written
OpenOut ==
    /\ pc = "OpenOut"
    /\ file_opened' = TRUE
    /\ out' = << [kind |-> "#"] >>
    /\ v_offset' = 0
    /\ wi' = 0
    /\ pc' = "WritePoint"
    /\ UNCHANGED <<outcome, raised, verts, readVars, preset, up_axis, loaded,
                   rotated, cropped, lower_cut_str, upper_cut_str, lower_cut,
                   upper_cut, crop_skipped, keep_ratio, target, picked,
                   w_scale, ico_rad>>

\* lines 177-195, one iteration of the loop over the points
WritePoint ==
    /\ pc = "WritePoint"
    /\ wi < Len(verts)
    /\ out' = out \o PointLines(verts[wi + 1], v_offset, w_scale, ico_rad)
    /\ v_offset' = v_offset + Len(ico_verts_unit)
    /\ wi' = wi + 1
    /\ UNCHANGED <<pc, outcome, raised, verts, readVars, preset, up_axis, loaded,
                   rotated, cropped, lower_cut_str, upper_cut_str, lower_cut,
                   upper_cut, crop_skipped, keep_ratio, target, picked,
                   w_scale, ico_rad, file_opened>>

\* lines 197 and 277-278: the loop is over, the file is closed
CloseOut ==
    /\ pc = "WritePoint"
    /\ wi >= Len(verts)
    /\ outcome' = "Saved"
    /\ pc' = "Done"
    /\ UNCHANGED <<raised, verts, readVars, pipeVars>>

PipeNext ==
    \/ ApplyPreset
    \/ CropVertical
    \/ EmptyCheck
    \/ ApplyLod
    \/ ReadScale
    \/ OpenOut
    \/ WritePoint
    \/ CloseOut

PipeSpec == PipeInit /\ [][PipeNext]_vars


-----------------------------------------------------------------------------
(* Claims about the pipeline *)

PresetDone == pc # "Preset"
CropReturned == pc \in {"EmptyCheck", "Lod", "Scale", "OpenOut", "WritePoint"}
                  \/ (pc = "Done" /\ outcome # "Crash")
LodDone == pc \in {"Scale", "OpenOut", "WritePoint"} \/ outcome = "Saved"

\* C3: apply_preset keeps length and order; a point (x,y,z) becomes (x,z,-y)
\* under preset 1 and is returned unchanged under every other preset id.
C3_PresetTable ==
    PresetDone =>
        /\ Len(rotated) = Len(loaded)
        /\ \A i \in DOMAIN loaded :
              rotated[i] = IF preset = 1
                              THEN <<loaded[i][1], loaded[i][3], -loaded[i][2]>>
                              ELSE loaded[i]

\* C4: when no point is left after the crop stage, the run ends in the
\* reported empty-result condition, not in an unhandled exception, and the
\* destination file is never opened.
C4_EmptyCropReported ==
    (pc = "Done" /\ verts = <<>>) =>
        /\ outcome = "EmptyResult"
        /\ raised = "none"
        /\ ~file_opened /\ out = <<>>

\* positions of the crop's input that lie within the bounds, ends included
InBounds == {i \in DOMAIN rotated :
                /\ lower_cut <= rotated[i][up_axis + 1]
                /\ rotated[i][up_axis + 1] <= upper_cut}

AxisValues == {rotated[i][up_axis + 1] : i \in DOMAIN rotated}

\* C8: on a non-empty list and numeric bounds the crop returns exactly the
\* points with lower <= p[axis] <= upper, in their order and multiplicity,
\* never more than it was given; a blank answer stands for the observed
\* minimum (maximum), and with both blank every point is kept.
C8_CropInclusiveStable ==
    (CropReturned /\ ~crop_skipped) =>
        /\ up_axis \in {1, 2}
        /\ Len(cropped) = Cardinality(InBounds)
        /\ \A r \in 1..Len(cropped) : cropped[r] = rotated[NthOf(InBounds, r)]
        /\ Len(cropped) <= Len(rotated)
        /\ lower_cut_str = "" =>
              lower_cut \in AxisValues /\ \A h \in AxisValues : lower_cut <= h
        /\ upper_cut_str = "" =>
              upper_cut \in AxisValues /\ \A h \in AxisValues : h <= upper_cut
        /\ (lower_cut_str = "" /\ upper_cut_str = "") => cropped = rotated

\* a crop that kept a point on each bound and dropped another
C8_Witness ==
    /\ CropReturned /\ ~crop_skipped
    /\ lower_cut = upper_cut
    /\ \E i \in InBounds : rotated[i][up_axis + 1] = lower_cut
    /\ Len(cropped) >= 2
    /\ Len(cropped) < Len(rotated)

\* C9: with keepRatio >= 1 the list passes unchanged; otherwise exactly
\* target = max(1, floor(count * keepRatio)) points pass, each from a distinct
\* position of the input, and 1 <= target <= count.
C9_SampleWithoutReplacement ==
    LodDone =>
        IF keep_ratio >= 100
           THEN verts = cropped
           ELSE LET count == Len(cropped) IN
                /\ Len(verts) = target
                /\ 1 <= target /\ target <= count
                /\ \/ target = 1 /\ count * keep_ratio < 100
                   \/ target * 100 <= count * keep_ratio
                        /\ count * keep_ratio < (target + 1) * 100
                /\ Len(picked) = target
                /\ \A a \in 1..target :
                      /\ picked[a] \in 1..count
                      /\ verts[a] = cropped[picked[a]]
                      /\ \A b \in 1..target : a # b => picked[a] # picked[b]

\* half of four points kept, taken out of input order
C9_Witness ==
    /\ LodDone /\ keep_ratio = 50
    /\ Len(cropped) = 4 /\ Len(verts) = 2
    /\ picked[1] > picked[2]

VertexLinesOf(lines) == {j \in DOMAIN lines : lines[j].kind = "v"}
FaceLinesOf(lines) == {j \in DOMAIN lines : lines[j].kind = "f"}

\* C2: each point is written as 12 vertex lines then 20 face lines, in point
\* order; the offset is 12*k when point k is written; every face index of
\* point k is 12*k + template index + 1, lies in 12*k+1 .. 12*k+12 and names
\* a vertex line already written for that point; N points give 12*N vertex
\* lines and 20*N face lines.
C2_OffsetsAndCounts ==
    file_opened =>
        /\ v_offset = 12 * wi
        /\ Len(out) = 1 + 32 * wi
        /\ out[1].kind = "#"
        /\ \A j \in 2..Len(out) :
              LET k == (j - 2) \div 32
                  r == (j - 2) % 32
              IN IF r < 12
                    THEN out[j].kind = "v"
                    ELSE /\ out[j].kind = "f"
                         /\ \A c \in 1..3 :
                              LET n == out[j].idx[c] IN
                              /\ n = 12 * k + ico_faces_unit[r - 11][c] + 1
                              /\ 12 * k + 1 <= n /\ n <= 12 * k + 12
                              /\ 1 + 32 * k + (n - 12 * k) < j
                              /\ out[1 + 32 * k + (n - 12 * k)].kind = "v"
        /\ outcome = "Saved" =>
              /\ wi = Len(verts)
              /\ Cardinality(VertexLinesOf(out)) = 12 * Len(verts)
              /\ Cardinality(FaceLinesOf(out)) = 20 * Len(verts)

\* a saved file of two points
C2_Witness == outcome = "Saved" /\ Len(verts) = 2 /\ Len(out) = 65

=============================================================================
